---------------------------- MODULE Spec2Model ----------------------------
(***************************************************************************)
(* A model of the QDB command-line client (src/main.py): the field codec   *)
(* QdbClient.__extract_type_and_value, and the operations read, write and  *)
(* listen of QdbClient, each as the sequence of HTTP round trips the code  *)
(* makes.  Strings the code inspects character by character (the wire      *)
(* strings given to write, the entity token) are sequences of one          *)
(* character strings.                                                      *)
(***************************************************************************)
EXTENDS Integers, Sequences, FiniteSets, TLC

VARIABLES
    pc,        \* position of the running operation
    args,      \* the arguments of the call
    template,  \* the client template in use, or NoTemplate
    net,       \* the HTTP requests issued so far, in order
    stdout,    \* the lines printed so far
    ret,       \* the value returned, the fault raised, or Pending
    entities,  \* read: the resolved QdbEntity list
    request,   \* the payload["requests"] list under construction
    response,  \* the payload of the last database response
    clock,     \* listen: completed sleep(1) calls
    intr       \* listen: where the interrupt signal arrived, or NoIntr

vars == <<pc, args, template, net, stdout, ret, entities, request, response,
          clock, intr>>

-----------------------------------------------------------------------------
(* Bounds of the model.                                                    *)

MaxJunk == 1
MaxWriteFields == 2
MaxAcks == 2
MaxEntities == 2
MaxReadFields == 2
MaxTriples == 2
MaxPolls == 3
MaxNotifications == 1

-----------------------------------------------------------------------------
(* Python values.                                                          *)

PyNone == [t |-> "None"]
PyStr(v) == [t |-> "str", v |-> v]
PyInt(n) == [t |-> "int", v |-> n]
PyBool(b) == [t |-> "bool", v |-> b]
PyFloat(neg, units, e10) ==
    [t |-> "float", cls |-> "num", neg |-> neg, units |-> units, e10 |-> e10]
PyFloatSpecial(neg, cls) ==
    [t |-> "float", cls |-> cls, neg |-> neg, units |-> 0, e10 |-> 0]

Pending == [t |-> "pending"]
NoTemplate == [t |-> "None"]
NoIntr == "none"

-----------------------------------------------------------------------------
(* Characters.                                                             *)

Digits == {"0", "1", "2", "3", "4", "5", "6", "7", "8", "9"}
DigitVal ==
    "0" :> 0 @@ "1" :> 1 @@ "2" :> 2 @@ "3" :> 3 @@ "4" :> 4 @@
    "5" :> 5 @@ "6" :> 6 @@ "7" :> 7 @@ "8" :> 8 @@ "9" :> 9
LowerLetters ==
    {"a", "b", "c", "d", "e", "f", "g", "h", "i", "j", "k", "l", "m",
     "n", "o", "p", "q", "r", "s", "t", "u", "v", "w", "x", "y", "z"}
UpperLetters ==
    {"A", "B", "C", "D", "E", "F", "G", "H", "I", "J", "K", "L", "M",
     "N", "O", "P", "Q", "R", "S", "T", "U", "V", "W", "X", "Y", "Z"}
\* \w of the pattern
WordChars == LowerLetters \cup UpperLetters \cup Digits \cup {"_"}
Whitespace == {" ", "\t", "\n"}
Newline == "\n"

-----------------------------------------------------------------------------
(* The casters of typeMap: Python's int, float, str and bool applied to a  *)
(* string.  A caster yields [raised, value].                               *)

RECURSIVE LStrip(_)
LStrip(v) == IF v # <<>> /\ Head(v) \in Whitespace THEN LStrip(Tail(v)) ELSE v

RECURSIVE RStrip(_)
RStrip(v) ==
    IF v # <<>> /\ v[Len(v)] \in Whitespace
    THEN RStrip(SubSeq(v, 1, Len(v) - 1))
    ELSE v

Strip(v) == LStrip(RStrip(v))

HasSign(v) == v # <<>> /\ Head(v) \in {"+", "-"}
Unsigned(v) == IF HasSign(v) THEN Tail(v) ELSE v
IsNegative(v) == v # <<>> /\ Head(v) = "-"

\* digits, with single underscores allowed between two digits
DigitGroup(v) ==
    /\ v # <<>>
    /\ \A i \in 1..Len(v) : v[i] \in Digits \cup {"_"}
    /\ v[1] \in Digits
    /\ v[Len(v)] \in Digits
    /\ \A i \in 1..(Len(v) - 1) : ~(v[i] = "_" /\ v[i + 1] = "_")

IsDigit(c) == c \in Digits
DigitsOf(v) == SelectSeq(v, IsDigit)

RECURSIVE NatVal(_)
NatVal(d) ==
    IF d = <<>> THEN 0
    ELSE 10 * NatVal(SubSeq(d, 1, Len(d) - 1)) + DigitVal[d[Len(d)]]

Raised == [raised |-> TRUE, value |-> PyNone]
Cast(x) == [raised |-> FALSE, value |-> x]

CastInt(v) ==
    LET w == Strip(v)
        body == Unsigned(w)
    IN  IF DigitGroup(body)
        THEN Cast(PyInt(IF IsNegative(w) THEN 0 - NatVal(DigitsOf(body))
                                        ELSE NatVal(DigitsOf(body))))
        ELSE Raised

ToLower(c) ==
    CASE c = "I" -> "i" [] c = "N" -> "n" [] c = "F" -> "f" [] c = "A" -> "a"
      [] c = "T" -> "t" [] c = "Y" -> "y" [] c = "E" -> "e" [] OTHER -> c
Lower(v) == [i \in 1..Len(v) |-> ToLower(v[i])]

Inf == <<"i", "n", "f">>
Infinity == <<"i", "n", "f", "i", "n", "i", "t", "y">>
NaN == <<"n", "a", "n">>

\* the first position of a character of cs in v, or Len(v) + 1
FirstOf(v, cs) ==
    IF \E i \in 1..Len(v) : v[i] \in cs
    THEN CHOOSE i \in 1..Len(v) :
             v[i] \in cs /\ \A j \in 1..(i - 1) : v[j] \notin cs
    ELSE Len(v) + 1

RECURSIVE Normalise(_, _, _)
Normalise(neg, units, e10) ==
    IF units = 0 THEN PyFloat(neg, 0, 0)
    ELSE IF units % 10 = 0 THEN Normalise(neg, units \div 10, e10 + 1)
    ELSE PyFloat(neg, units, e10)

CastFloat(v) ==
    LET w == Strip(v)
        neg == IsNegative(w)
        body == Lower(Unsigned(w))
        ePos == FirstOf(body, {"e"})
        mant == SubSeq(body, 1, ePos - 1)
        hasExp == ePos <= Len(body)
        expo == SubSeq(body, ePos + 1, Len(body))
        dot == FirstOf(mant, {"."})
        ip == SubSeq(mant, 1, dot - 1)
        fp == SubSeq(mant, dot + 1, Len(mant))
        mantOk == /\ ip = <<>> \/ DigitGroup(ip)
                  /\ fp = <<>> \/ DigitGroup(fp)
                  /\ ip # <<>> \/ fp # <<>>
        expOk == ~hasExp \/ DigitGroup(Unsigned(expo))
        expVal == IF ~hasExp THEN 0
                  ELSE IF IsNegative(expo) THEN 0 - NatVal(DigitsOf(expo))
                  ELSE NatVal(DigitsOf(expo))
    IN  IF body \in {Inf, Infinity} THEN Cast(PyFloatSpecial(neg, "inf"))
        ELSE IF body = NaN THEN Cast(PyFloatSpecial(neg, "nan"))
        ELSE IF mantOk /\ expOk
        THEN Cast(Normalise(neg, NatVal(DigitsOf(ip) \o DigitsOf(fp)),
                            expVal - Len(DigitsOf(fp))))
        ELSE Raised

CastStr(v) == Cast(PyStr(v))

\* bool(s) of a string is "s is not empty"
CastBool(v) == Cast(PyBool(v # <<>>))

ApplyCaster(caster, v) ==
    CASE caster = "int" -> CastInt(v)
      [] caster = "float" -> CastFloat(v)
      [] caster = "bool" -> CastBool(v)
      [] OTHER -> CastStr(v)

-----------------------------------------------------------------------------
(* QdbClient.__extract_type_and_value                                      *)

QdbDot == <<"q", "d", "b", ".">>
KindInt == <<"I", "n", "t">>
KindFloat == <<"F", "l", "o", "a", "t">>
KindString == <<"S", "t", "r", "i", "n", "g">>
KindEntityReference ==
    <<"E", "n", "t", "i", "t", "y", "R", "e", "f", "e", "r", "e", "n", "c", "e">>
KindBool == <<"B", "o", "o", "l">>
KindTimestamp == <<"T", "i", "m", "e", "s", "t", "a", "m", "p">>
KindConnectionState ==
    <<"C", "o", "n", "n", "e", "c", "t", "i", "o", "n", "S", "t", "a", "t", "e">>
KindGarageDoorState ==
    <<"G", "a", "r", "a", "g", "e", "D", "o", "o", "r", "S", "t", "a", "t", "e">>

typeMap ==
    (QdbDot \o KindInt) :> "int" @@
    (QdbDot \o KindFloat) :> "float" @@
    (QdbDot \o KindString) :> "str" @@
    (QdbDot \o KindEntityReference) :> "str" @@
    (QdbDot \o KindBool) :> "bool" @@
    (QdbDot \o KindTimestamp) :> "str" @@
    (QdbDot \o KindConnectionState) :> "str" @@
    (QdbDot \o KindGarageDoorState) :> "str"

\* the length of the longest run of \w characters of s that starts at i
RECURSIVE WordRun(_, _)
WordRun(s, i) ==
    IF i <= Len(s) /\ s[i] \in WordChars THEN 1 + WordRun(s, i + 1) ELSE 0

\* the position of the "(" of a match of the pattern that starts at i
OpenAt(s, i) == i + 4 + WordRun(s, i + 4)

\* the end of the line that holds position i: "." matches no newline
LineEnd(s, i) ==
    IF \E k \in i..Len(s) : s[k] = Newline
    THEN CHOOSE k \in i..Len(s) :
             s[k] = Newline /\ \A j \in i..(k - 1) : s[j] # Newline
    ELSE Len(s) + 1

\* the candidate positions of the closing ")" of a match that starts at i
Closers(s, i) ==
    {k \in (OpenAt(s, i) + 2)..(LineEnd(s, OpenAt(s, i) + 1) - 1) : s[k] = ")"}

\* r'(?P<type>qdb\.\w+)\((?P<value>.+)\)' matches s at position i
MatchesAt(s, i) ==
    /\ i + 3 <= Len(s)
    /\ SubSeq(s, i, i + 3) = QdbDot
    /\ WordRun(s, i + 4) >= 1
    /\ OpenAt(s, i) <= Len(s)
    /\ s[OpenAt(s, i)] = "("
    /\ Closers(s, i) # {}

Max(S) == CHOOSE x \in S : \A y \in S : y <= x
Min(S) == CHOOSE x \in S : \A y \in S : x <= y

\* re.search: the leftmost match, its groups taken greedily
Search(s) ==
    LET starts == {i \in 1..Len(s) : MatchesAt(s, i)}
    IN  IF starts = {} THEN [found |-> FALSE, type |-> <<>>, value |-> <<>>]
        ELSE LET i == Min(starts)
                 open == OpenAt(s, i)
                 close == Max(Closers(s, i))
             IN  [found |-> TRUE,
                  type |-> SubSeq(s, i, open - 1),
                  value |-> SubSeq(s, open + 1, close - 1)]

extract_type_and_value(s) ==
    LET match == Search(s)
    IN  IF match.found /\ match.type \in DOMAIN typeMap
        THEN LET c == ApplyCaster(typeMap[match.type], match.value)
             IN  [raised |-> c.raised,
                  type |-> IF c.raised THEN PyNone ELSE PyStr(match.type),
                  value |-> c.value]
        ELSE [raised |-> FALSE, type |-> PyNone, value |-> PyNone]

-----------------------------------------------------------------------------
(* The codec alone: one call of __extract_type_and_value on a wire string. *)

\* all sequences over S of length at most n
RECURSIVE SeqsUpTo(_, _)
SeqsUpTo(S, n) ==
    IF n = 0 THEN {<<>>}
    ELSE LET shorter == SeqsUpTo(S, n - 1)
         IN  shorter \cup {Append(q, x) : q \in shorter, x \in S}

LitFive == <<"5">>
LitMinusFive == <<"-", "5">>
LitOnePointFive == <<"1", ".", "5">>
LitAbc == <<"a", "b", "c">>
LitTrue == <<"t", "r", "u", "e">>
LitFalse == <<"f", "a", "l", "s", "e">>
LitNested == <<"a", "(", "b", ")", "c">>
Literals ==
    {<<>>, LitFive, LitMinusFive, LitOnePointFive, LitAbc, LitTrue, LitFalse,
     LitNested}

Kinds ==
    {KindInt, KindFloat, KindString, KindEntityReference, KindBool,
     KindTimestamp, KindConnectionState, KindGarageDoorState}
KindFoo == <<"F", "o", "o">>

\* the string "qdb.<kind>(<literal>)"
Tagged(kind, lit) == QdbDot \o kind \o <<"(">> \o lit \o <<")">>

NotTagged ==
    <<"n", "o", "t", "-", "a", "-", "t", "a", "g", "g", "e", "d", "-",
      "v", "a", "l", "u", "e">>

WireStrings ==
    {pre \o Tagged(k, l) \o suf :
        pre \in SeqsUpTo({"x"}, MaxJunk), k \in Kinds \cup {KindFoo},
        l \in Literals, suf \in SeqsUpTo({"x", ")"}, MaxJunk)}
    \cup {k \o <<"(">> \o l \o <<")">> : k \in Kinds, l \in Literals}
    \cup {QdbDot \o k \o l : k \in Kinds, l \in Literals}
    \cup {NotTagged, <<>>}

Idle ==
    /\ template = NoTemplate
    /\ net = <<>>
    /\ stdout = <<>>
    /\ ret = Pending
    /\ entities = <<>>
    /\ request = <<>>
    /\ response = <<>>
    /\ clock = 0
    /\ intr = NoIntr

InitCodec ==
    /\ pc = "call"
    /\ args \in {[op |-> "decode", s |-> w] : w \in WireStrings}
    /\ Idle

Decode ==
    /\ pc = "call"
    /\ args.op = "decode"
    /\ ret' = extract_type_and_value(args.s)
    /\ pc' = IF ret'.raised THEN "raised" ELSE "returned"
    /\ UNCHANGED <<args, template, net, stdout, entities, request, response,
                   clock, intr>>

NextCodec == Decode

SpecCodec == InitCodec /\ [][NextCodec]_vars

Invalid == [raised |-> FALSE, type |-> PyNone, value |-> PyNone]

\* s is exactly qdb.<Kind>(<literal>): one or more word characters after
\* "qdb.", then a parenthesised, non-empty literal that runs to the end
ExactForm(s) ==
    /\ Len(s) >= 4
    /\ SubSeq(s, 1, 4) = QdbDot
    /\ WordRun(s, 5) >= 1
    /\ OpenAt(s, 1) + 2 <= Len(s)
    /\ s[OpenAt(s, 1)] = "("
    /\ s[Len(s)] = ")"
    /\ \A k \in 1..Len(s) : s[k] # Newline
KindOf(s) == SubSeq(s, 5, OpenAt(s, 1) - 1)

\* C7: whenever decode returns, it returns the invalid (empty) result for
\* every string that is not exactly of the form qdb.<Kind>(<literal>), and
\* for every string whose kind is outside the enumerated set.
C7_InexactIsInvalid ==
    (pc = "returned" /\ args.op = "decode"
        /\ (~ExactForm(args.s) \/ KindOf(args.s) \notin Kinds))
    => ret = Invalid

\* a string with a known kind whose literal its caster cannot parse
KnownKindBadLiteral(s) ==
    /\ Search(s).found
    /\ Search(s).type \in DOMAIN typeMap
    /\ ApplyCaster(typeMap[Search(s).type], Search(s).value).raised

\* C8: a known kind whose literal fails to parse as the kind's native type
\* makes decode return the empty result; decoding never throws.
C8_BadLiteralIsInvalid ==
    (pc # "call" /\ args.op = "decode" /\ KnownKindBadLiteral(args.s))
    => (pc = "returned" /\ ret = Invalid)

\* the literals that are valid for a kind, and their native values
ValidLiteral(kind, lit) ==
    CASE kind = KindInt -> lit \in {LitFive, LitMinusFive}
      [] kind = KindFloat -> lit \in {LitFive, LitMinusFive, LitOnePointFive}
      [] kind = KindBool -> lit \in {LitTrue, LitFalse}
      [] OTHER -> lit # <<>>
NativeParse(kind, lit) ==
    CASE kind = KindInt -> PyInt(IF lit = LitFive THEN 5 ELSE 0 - 5)
      [] kind = KindFloat ->
            IF lit = LitOnePointFive THEN PyFloat(FALSE, 15, 0 - 1)
            ELSE PyFloat(lit = LitMinusFive, 5, 0)
      [] kind = KindBool -> PyBool(lit = LitTrue)
      [] OTHER -> PyStr(lit)

\* C9: for every supported kind K and valid literal L, decoding qdb.K(L)
\* yields the pair (K, nativeParse(L)).
C9_RoundTrip ==
    \A k \in Kinds : \A l \in Literals :
        (pc # "call" /\ args.op = "decode" /\ ValidLiteral(k, l)
            /\ args.s = Tagged(k, l))
        => ret = [raised |-> FALSE, type |-> PyStr(QdbDot \o k),
                  value |-> NativeParse(k, l)]

-----------------------------------------------------------------------------
(* The HTTP exchanges.                                                     *)

ServerTemplate == [clientId |-> "server-assigned"]
CallerTemplate == [clientId |-> "caller-given"]

GetClientId == [method |-> "GET", path |-> "/make-client-id"]
Post(tmpl, payload) ==
    [method |-> "POST", path |-> "/api", template |-> tmpl,
     payload |-> payload]

IsPostOf(r, type) == r.method = "POST" /\ r.payload.type = type
PostsOf(type) == {i \in 1..Len(net) : IsPostOf(net[i], type)}

-----------------------------------------------------------------------------
(* QdbClient.write                                                         *)

FieldNames == {"a", "b"}
LitAbcWire == Tagged(KindInt, LitAbc)
WriteWires == {Tagged(KindInt, LitFive), NotTagged, LitAbcWire}
WriteEntityId == <<"s", "-", "1">>

\* a dict of field name -> wire string, in insertion order
FieldDicts ==
    {d \in SeqsUpTo([name : FieldNames, wire : WriteWires], MaxWriteFields) :
        \A i, j \in 1..Len(d) : i # j => d[i].name # d[j].name}

\* what the server may answer to a WRITE: a list of acknowledgements
Acks == [field : FieldNames, success : BOOLEAN]
AckLists == SeqsUpTo(Acks, MaxAcks)

InitWrite ==
    /\ pc = "template"
    /\ args \in [op : {"write"}, entityId : {WriteEntityId},
                 fields : FieldDicts, template : {NoTemplate, CallerTemplate}]
    /\ Idle

\* lines 115-116: the template is fetched unless the caller gave one
WriteTemplate ==
    /\ pc = "template"
    /\ args.op = "write"
    /\ template' = IF args.template = NoTemplate THEN ServerTemplate
                   ELSE args.template
    /\ net' = IF args.template = NoTemplate THEN Append(net, GetClientId)
              ELSE net
    /\ pc' = "encode"
    /\ UNCHANGED <<args, stdout, ret, entities, request, response, clock, intr>>

WriteDescriptor(entityId, name, decoded) ==
    [id |-> entityId, field |-> name,
     value |-> [type |-> <<"type.googleapis.com/">> \o decoded.type.v,
                raw |-> decoded.value]]

\* lines 128-140: the loop over fields.items(), from field i on, with the
\* descriptors built so far
RECURSIVE EncodeFrom(_, _, _, _)
EncodeFrom(entityId, fields, i, built) ==
    IF i > Len(fields) THEN [status |-> "ok", requests |-> built, at |-> 0]
    ELSE LET decoded == extract_type_and_value(fields[i].wire)
         IN  IF decoded.raised
             THEN [status |-> "raised", requests |-> built, at |-> i]
             ELSE IF decoded.type = PyNone
             THEN [status |-> "invalid", requests |-> built, at |-> i]
             ELSE EncodeFrom(entityId, fields, i + 1,
                      Append(built,
                             WriteDescriptor(entityId, fields[i].name, decoded)))

EncodeFields(entityId, fields) == EncodeFrom(entityId, fields, 1, <<>>)

InvalidValueMessage(name) ==
    [text |-> "Failed to write field. Invalid value type.", field |-> name,
     value |-> PyNone]

\* lines 118-140
WriteEncode ==
    /\ pc = "encode"
    /\ args.op = "write"
    /\ LET e == EncodeFields(args.entityId, args.fields)
       IN  /\ request' = e.requests
           /\ pc' = CASE e.status = "ok" -> "post"
                      [] e.status = "invalid" -> "returned"
                      [] OTHER -> "raised"
           /\ ret' = CASE e.status = "ok" -> ret
                       [] e.status = "invalid" -> PyBool(FALSE)
                       [] OTHER -> [t |-> "ValueError"]
           /\ stdout' = IF e.status = "invalid"
                        THEN Append(stdout,
                                 InvalidValueMessage(args.fields[e.at].name))
                        ELSE stdout
    /\ UNCHANGED <<args, template, net, entities, response, clock, intr>>

WritePayload(requests) ==
    [type |-> "qdb.WebRuntimeDatabaseRequest", requestType |-> "WRITE",
     requests |-> requests]

\* all(r["success"] for r in acks)
AllSuccess(acks) == \A i \in 1..Len(acks) : acks[i].success

\* lines 142-143
WritePost ==
    /\ pc = "post"
    /\ args.op = "write"
    /\ net' = Append(net, Post(template, WritePayload(request)))
    /\ \E acks \in AckLists :
          /\ response' = acks
          /\ ret' = PyBool(AllSuccess(acks))
    /\ pc' = "returned"
    /\ UNCHANGED <<args, template, stdout, entities, request, clock, intr>>

NextWrite == WriteTemplate \/ WriteEncode \/ WritePost

SpecWrite == InitWrite /\ [][NextWrite]_vars

\* the wire strings decode reports as invalid
Undecodable(w) == extract_type_and_value(w) = Invalid

\* C1: a write with an undecodable field returns false, and by the time it
\* returns no network request at all has been issued.
C1_InvalidWriteSendsNothing ==
    (pc = "returned" /\ args.op = "write" /\ args.template = NoTemplate
        /\ \E i \in 1..Len(args.fields) : Undecodable(args.fields[i].wire))
    => (ret = PyBool(FALSE) /\ net = <<>>)

Submitted == {request[i].field : i \in 1..Len(request)}

\* C2: a write whose fields all decode returns true if and only if the
\* server acknowledged every submitted field with success = true: one false
\* acknowledgement, or a submitted field with no acknowledgement, makes it
\* return false.
C2_TrueIffEveryFieldAcknowledged ==
    (pc = "returned" /\ args.op = "write" /\ PostsOf("qdb.WebRuntimeDatabaseRequest") # {})
    => (ret = PyBool(TRUE)
        <=> /\ \A i \in 1..Len(response) : response[i].success
            /\ \A f \in Submitted :
                   \E i \in 1..Len(response) : response[i].field = f)

-----------------------------------------------------------------------------
(* QdbClient.get_entity, get_entities and read                             *)

TokenId == <<"s", "-", "1">>
OtherId == <<"s", "-", "2">>
TokenType == <<"T">>
ReadTokens == {TokenId, TokenType}
EntityIds == {TokenId, OtherId}

\* the entities the server may describe
ServerEntities == [id : EntityIds, type : {"T"}, name : {"n"}]

\* the values of a response triple, JSON objects: "raw" may be missing
TripleValues ==
    {<<[key |-> "raw", value |-> PyInt(1)]>>,
     <<[key |-> "raw", value |-> PyInt(2)]>>,
     <<[key |-> "unit", value |-> PyStr(<<"C">>)]>>}
Triples == [id : EntityIds, field : FieldNames, value : TripleValues]

\* a dict: its items, in insertion order
EmptyDict == <<>>
DictKeys(d) == {d[i].key : i \in 1..Len(d)}
DictGet(d, k) == d[CHOOSE i \in 1..Len(d) : d[i].key = k].value

\* d[k] = v
DictSetFirst(d, k, v) ==
    IF k \in DictKeys(d) THEN d ELSE Append(d, [key |-> k, value |-> v])
DictSet(d, k, v) ==
    IF k \in DictKeys(d)
    THEN [i \in 1..Len(d) |->
             IF d[i].key = k THEN [key |-> k, value |-> v] ELSE d[i]]
    ELSE Append(d, [key |-> k, value |-> v])

\* value.get("raw")
GetRaw(value) ==
    IF "raw" \in DictKeys(value) THEN DictGet(value, "raw") ELSE PyNone

\* QdbEntity(entity["id"], entity["type"], entity["name"])
QdbEntity(e) ==
    [eid |-> e.id, etype |-> e.type, name |-> e.name, fields |-> EmptyDict]

\* '-' in entityTypeOrId
HasSeparatorFirst(token) == token # <<>> /\ token[1] = "-"
HasSeparator(token) == \E i \in 1..Len(token) : token[i] = "-"

InitRead ==
    /\ pc = "template"
    /\ args \in [op : {"read"}, token : ReadTokens,
                 fields : SeqsUpTo(FieldNames, MaxReadFields),
                 template : {NoTemplate}]
    /\ Idle

\* lines 79-80
ReadTemplate ==
    /\ pc = "template"
    /\ args.op = "read"
    /\ template' = IF args.template = NoTemplate THEN ServerTemplate
                   ELSE args.template
    /\ net' = IF args.template = NoTemplate THEN Append(net, GetClientId)
              ELSE net
    /\ pc' = "resolve"
    /\ UNCHANGED <<args, stdout, ret, entities, request, response, clock, intr>>

GetEntityPayload(entityId) ==
    [type |-> "qdb.WebConfigGetEntityRequest", id |-> entityId]
GetEntitiesPayload(entityType) ==
    [type |-> "qdb.WebRuntimeGetEntitiesRequest", entityType |-> entityType]

\* lines 94-95 and get_entity, lines 49-60
ResolveById ==
    /\ pc = "resolve"
    /\ args.op = "read"
    /\ HasSeparator(args.token)
    /\ net' = Append(net, Post(template, GetEntityPayload(args.token)))
    /\ \E e \in ServerEntities :
          /\ response' = <<e>>
          /\ entities' = <<QdbEntity(e)>>
    /\ pc' = "submit"
    /\ UNCHANGED <<args, template, stdout, ret, request, clock, intr>>

\* lines 96-97 and get_entities, lines 66-76
ResolveByType ==
    /\ pc = "resolve"
    /\ args.op = "read"
    /\ ~HasSeparator(args.token)
    /\ net' = Append(net, Post(template, GetEntitiesPayload(args.token)))
    /\ \E es \in SeqsUpTo(ServerEntities, MaxEntities) :
          /\ response' = es
          /\ entities' = [i \in 1..Len(es) |-> QdbEntity(es[i])]
    /\ pc' = "submit"
    /\ UNCHANGED <<args, template, stdout, ret, request, clock, intr>>

\* lines 99-104: one descriptor for every entity and every field, entities
\* outermost
RECURSIVE ReadDescriptorsFirstField(_, _)
ReadDescriptorsFirstField(ents, fields) ==
    IF ents = <<>> \/ fields = <<>> THEN <<>>
    ELSE <<[id |-> Head(ents).eid, field |-> Head(fields)]>>
         \o ReadDescriptorsFirstField(Tail(ents), fields)
RECURSIVE ReadDescriptors(_, _)
ReadDescriptors(ents, fields) ==
    IF ents = <<>> THEN <<>>
    ELSE [j \in 1..Len(fields) |-> [id |-> Head(ents).eid, field |-> fields[j]]]
         \o ReadDescriptors(Tail(ents), fields)

ReadPayload(requests) ==
    [type |-> "qdb.WebRuntimeDatabaseRequest", requestType |-> "READ",
     requests |-> requests]

\* lines 108-110: entityById maps an eid to the last entity that has it;
\* the triples are applied in order, and an unknown id is a KeyError
RECURSIVE ApplyTriples(_, _, _)
ApplyTriples(ents, triples, i) ==
    IF i > Len(triples) THEN [raised |-> FALSE, entities |-> ents]
    ELSE LET t == triples[i]
             holders == {k \in 1..Len(ents) : ents[k].eid = t.id}
         IN  IF holders = {} THEN [raised |-> TRUE, entities |-> ents]
             ELSE ApplyTriples(
                      [ents EXCEPT ![Max(holders)].fields =
                          DictSet(@, t.field, GetRaw(t.value))],
                      triples, i + 1)

\* lines 99-112
ReadSubmit ==
    /\ pc = "submit"
    /\ args.op = "read"
    /\ request' = ReadDescriptors(entities, args.fields)
    /\ net' = Append(net, Post(template, ReadPayload(request')))
    /\ \E triples \in SeqsUpTo(Triples, MaxTriples) :
          /\ response' = triples
          /\ LET applied == ApplyTriples(entities, triples, 1)
             IN  /\ entities' = applied.entities
                 /\ pc' = IF applied.raised THEN "raised" ELSE "returned"
                 /\ ret' = IF applied.raised THEN [t |-> "KeyError"]
                           ELSE applied.entities
    /\ UNCHANGED <<args, template, stdout, clock, intr>>

NextRead == ReadTemplate \/ ResolveById \/ ResolveByType \/ ReadSubmit

SpecRead == InitRead /\ [][NextRead]_vars

\* the token contains the separator character
ContainsSeparator(token) == "-" \in {token[i] : i \in 1..Len(token)}

ReadResolved == args.op = "read" /\ pc \in {"submit", "returned", "raised"}
ReadFinished == args.op = "read" /\ pc \in {"returned", "raised"}
ByIdPosts == PostsOf("qdb.WebConfigGetEntityRequest")
ByTypePosts == PostsOf("qdb.WebRuntimeGetEntitiesRequest")
DatabasePosts == PostsOf("qdb.WebRuntimeDatabaseRequest")

\* C4: the resolution step of read issues a get-by-id request (whose result
\* is a one-element sequence) if and only if the token contains '-', and
\* otherwise a get-by-type request with the token as the entity type, never
\* both; an empty get-by-type result yields an empty entity sequence, not an
\* error.
C4_ResolveRouting ==
    /\ (args.op = "read" /\ ~ReadResolved)
          => (ByIdPosts = {} /\ ByTypePosts = {})
    /\ ReadResolved =>
          /\ Cardinality(ByIdPosts \cup ByTypePosts) = 1
          /\ ByIdPosts # {} <=> ContainsSeparator(args.token)
          /\ \A i \in ByIdPosts :
                net[i].payload.id = args.token /\ Len(entities) = 1
          /\ \A i \in ByTypePosts : net[i].payload.entityType = args.token
    /\ (args.op = "read" /\ pc = "submit" /\ ByTypePosts # {})
          => Len(entities) = Len(response)

C4_Witness ==
    pc = "submit" /\ args.op = "read" /\ ~ContainsSeparator(args.token)
        /\ ByTypePosts # {} /\ response = <<>> /\ entities = <<>>

\* C10: every read POSTs exactly one READ database request, after entity
\* resolution, whose requests list holds exactly one {id, field} descriptor
\* for every (resolved entity, field name) pair and nothing else: its length
\* is |entities| x |fieldNames|.
C10_OneBatchedRead ==
    /\ (args.op = "read" /\ ~ReadFinished) => DatabasePosts = {}
    /\ ReadFinished =>
          /\ Cardinality(DatabasePosts) = 1
          /\ \A i \in DatabasePosts :
                LET sent == net[i].payload.requests
                    n == Len(args.fields)
                IN  /\ net[i].payload.requestType = "READ"
                    /\ \A j \in ByIdPosts \cup ByTypePosts : j < i
                    /\ Len(sent) = Len(entities) * n
                    /\ \A e \in 1..Len(entities) : \A f \in 1..n :
                          sent[(e - 1) * n + f] =
                              [id |-> entities[e].eid, field |-> args.fields[f]]

C10_Witness ==
    ReadFinished /\ Len(entities) = 2 /\ Len(args.fields) = 2
        /\ Len(request) = 4 /\ args.fields[1] # args.fields[2]

FieldSet == {args.fields[j] : j \in 1..Len(args.fields)}
ResponseFields == {response[i].field : i \in 1..Len(response)}
ReadById == args.op = "read" /\ ContainsSeparator(args.token)

\* C3 as stated: read of an entity id returns exactly one entity whose
\* fields have no key outside F, each key mapped to the raw member of a
\* response triple for that (entity id, field name), for every response
\* (stated here for the reads of a non-empty F that return the entity the
\* token names).
C3_NoKeyOutsideRequested ==
    (ReadById /\ pc = "returned" /\ args.fields # <<>>
        /\ \A e \in 1..Len(ret) : ret[e].eid = args.token) =>
        /\ Len(ret) = 1
        /\ DictKeys(ret[1].fields) \subseteq FieldSet
        /\ \A k \in DictKeys(ret[1].fields) :
              \E i \in 1..Len(response) :
                  /\ response[i].id = ret[1].eid
                  /\ response[i].field = k
                  /\ GetRaw(response[i].value) = DictGet(ret[1].fields, k)

\* the last triple of the response that names field k
LastTripleOf(k) ==
    response[Max({i \in 1..Len(response) : response[i].field = k})]

\* C3, as amended: read of an entity id resolves exactly one entity; it
\* returns if and only if every response triple names that entity's id (any
\* other id is a fault); on return the keys of the entity's fields are
\* exactly the field names of the response triples, requested or not (so
\* none is outside F when the server answers only for requested fields, and
\* a field the server omits is absent), each mapped to the raw member of
\* the last triple for it (None when the triple's value has no raw member).
C3_KeysFollowResponse ==
    (ReadById /\ ReadFinished) =>
        /\ Len(entities) = 1
        /\ pc = "returned" <=>
              \A i \in 1..Len(response) : response[i].id = entities[1].eid
        /\ pc = "returned" =>
              /\ ret = entities
              /\ DictKeys(ret[1].fields) = ResponseFields
              /\ ResponseFields \subseteq FieldSet
                    => DictKeys(ret[1].fields) \subseteq FieldSet
              /\ \A k \in DictKeys(ret[1].fields) :
                    DictGet(ret[1].fields, k) = GetRaw(LastTripleOf(k).value)

C3_Witness ==
    ReadById /\ pc = "returned" /\ Len(response) = 2
        /\ response[1].field = response[2].field
        /\ GetRaw(response[1].value) # GetRaw(response[2].value)
        /\ Len(args.fields) = 2 /\ args.fields[1] # args.fields[2]
        /\ Len(ret[1].fields) = 1

-----------------------------------------------------------------------------
(* QdbClient.register_notification, get_notifications and listen           *)

ListenField == "a"
Notifications ==
    {[current |-> [id |-> TokenId, name |-> ListenField, writeTime |-> "t1",
                   value |-> [raw |-> PyInt(2)]],
      previous |-> [value |-> [raw |-> PyInt(1)]],
      context |-> <<>>]}

InitListen ==
    /\ pc = "template"
    /\ args \in [op : {"listen"}, token : ReadTokens, field : {ListenField},
                 context : {<<>>, <<"b">>}, notifyOnChange : BOOLEAN]
    /\ Idle

\* line 188
ListenTemplate ==
    /\ pc = "template"
    /\ args.op = "listen"
    /\ template' = ServerTemplate
    /\ net' = Append(net, GetClientId)
    /\ pc' = "register"
    /\ UNCHANGED <<args, stdout, ret, entities, request, response, clock, intr>>

\* lines 149-167
RegisterRequest(token, field, context, notifyOnChange) ==
    LET base == [field |-> field, contextFields |-> context,
                 notifyOnChange |-> notifyOnChange]
    IN  IF HasSeparator(token) THEN base @@ [id |-> token]
        ELSE base @@ [type |-> token]

RegisterPayload(requests) ==
    [type |-> "qdb.WebRuntimeRegisterNotificationRequest",
     requests |-> requests]

\* line 189 and register_notification, lines 149-170: listen goes on only
\* when the server returned at least one token, and returns None otherwise
ListenRegister ==
    /\ pc = "register"
    /\ args.op = "listen"
    /\ request' = <<RegisterRequest(args.token, args.field, args.context,
                                    args.notifyOnChange)>>
    /\ net' = Append(net, Post(template, RegisterPayload(request')))
    /\ \E tokens \in SeqsUpTo({"token"}, 1) :
          /\ response' = tokens
          /\ pc' = IF Len(tokens) > 0 THEN "registered" ELSE "returned"
          /\ ret' = IF Len(tokens) > 0 THEN ret ELSE PyNone
    /\ UNCHANGED <<args, template, stdout, entities, clock, intr>>

\* line 190
ListenAnnounce ==
    /\ pc = "registered"
    /\ args.op = "listen"
    /\ stdout' = Append(stdout, [text |-> "Listening for notifications",
                                 entity |-> args.token])
    /\ pc' = "poll"
    /\ UNCHANGED <<args, template, net, ret, entities, request, response,
                   clock, intr>>

NotificationsPayload == [type |-> "qdb.WebRuntimeGetNotificationsRequest"]
PollPosts == PostsOf("qdb.WebRuntimeGetNotificationsRequest")
RegisterPosts == PostsOf("qdb.WebRuntimeRegisterNotificationRequest")

\* lines 195-199
Printed(n) ==
    [text |-> "Entity", id |-> n.current.id, at |-> n.current.writeTime,
     name |-> n.current.name, value |-> n.current.value.raw,
     from |-> n.previous.value.raw, context |-> n.context]

\* lines 193-199 and get_notifications, lines 176-185
ListenPoll ==
    /\ pc = "poll"
    /\ args.op = "listen"
    /\ Cardinality(PollPosts) < MaxPolls
    /\ net' = Append(net, Post(template, NotificationsPayload))
    /\ \E ns \in SeqsUpTo(Notifications, MaxNotifications) :
          /\ response' = ns
          /\ stdout' = stdout \o [i \in 1..Len(ns) |-> Printed(ns[i])]
    /\ pc' = "sleep"
    /\ UNCHANGED <<args, template, ret, entities, request, clock, intr>>

\* line 200
ListenSleep ==
    /\ pc = "sleep"
    /\ args.op = "listen"
    /\ clock' = clock + 1
    /\ pc' = "poll"
    /\ UNCHANGED <<args, template, net, stdout, ret, entities, request,
                   response, intr>>

\* lines 191-202: the positions the try statement covers
InTryAnywhere(p) == TRUE
InTry(p) == p \in {"poll", "sleep"}

\* the interrupt signal (KeyboardInterrupt), delivered before the step at pc:
\* caught and dropped inside the try statement, propagated outside it
Interrupt ==
    /\ pc \in {"template", "register", "registered", "poll", "sleep"}
    /\ args.op = "listen"
    /\ intr = NoIntr
    /\ intr' = pc
    /\ pc' = IF InTry(pc) THEN "returned" ELSE "raised"
    /\ ret' = IF InTry(pc) THEN PyNone ELSE [t |-> "KeyboardInterrupt"]
    /\ UNCHANGED <<args, template, net, stdout, entities, request, response,
                   clock>>

NextListen ==
    \/ ListenTemplate
    \/ ListenRegister
    \/ ListenAnnounce
    \/ ListenPoll
    \/ ListenSleep
    \/ Interrupt

SpecListen == InitListen /\ [][NextListen]_vars

ListenOver == args.op = "listen" /\ pc \in {"returned", "raised"}
Polls == Cardinality(PollPosts)

\* C5 as stated: registerNotification is called exactly once, and once an
\* interrupt is observed at any point of the invocation listen returns
\* without error.
C5_InterruptAnywhereReturns ==
    ListenOver =>
        /\ Cardinality(RegisterPosts) = 1
        /\ intr # NoIntr => pc = "returned"

\* C5, as amended: registerNotification is called at most once, and exactly
\* once unless the interrupt arrives before the registration request is
\* sent; polls happen only after a successful registration, one per elapsed
\* interval, each followed by one sleep before the next; the poll loop ends
\* only by an interrupt; an interrupt observed inside the poll loop (before a
\* poll or a sleep) makes listen return without error, and one observed
\* before the loop is entered (template fetch, registration, announcement)
\* propagates out of listen as KeyboardInterrupt with no poll made.
C5_InterruptInLoopReturns ==
    args.op = "listen" =>
        /\ Cardinality(RegisterPosts) <= 1
        /\ Cardinality(RegisterPosts) = 1 <=>
              \/ pc \in {"registered", "poll", "sleep"}
              \/ ListenOver /\ intr \notin {"template", "register"}
        /\ pc = "poll" => Polls = clock
        /\ pc = "sleep" => Polls = clock + 1
        /\ Polls \in {clock, clock + 1}
        /\ \A i \in PollPosts : \A j \in RegisterPosts : j < i
        /\ (ListenOver /\ Polls > 0) => intr \in {"poll", "sleep"}
        /\ intr \in {"poll", "sleep"} => (pc = "returned" /\ ret = PyNone)
        /\ intr \in {"template", "register", "registered"} =>
              (pc = "raised" /\ Polls = 0 /\ ret = [t |-> "KeyboardInterrupt"])

C5_Witness ==
    args.op = "listen" /\ pc = "returned" /\ intr = "sleep" /\ Polls = 2
        /\ clock = 1 /\ Cardinality(RegisterPosts) = 1

\* the registration was answered with no subscription token
RegistrationFailed ==
    args.op = "listen" /\ RegisterPosts # {} /\ PollPosts = {}
        /\ response = <<>>

FailureReported == pc = "raised" \/ stdout # <<>>

\* C6: an unsuccessful registration makes listen abort with a reported
\* failure, the poll loop is not entered and no get-notifications request is
\* issued.
C6_FailedRegistrationReported ==
    (ListenOver /\ RegistrationFailed) => (FailureReported /\ Polls = 0)

====
